---- MODULE Spec2Model ----
(***************************************************************************)
(* TFHMM (src/HMM.ipynb, cell "Step 5"): a Gaussian mixture fitted by a    *)
(* fixed number of EM iterations (fit) and decoded sample by sample        *)
(* (predict).                                                              *)
(*                                                                         *)
(* Numbers.  Every tensor of the class is tf.float32.  A float32 is        *)
(* modelled as a binary floating-point number with float32's special       *)
(* values (NaN, +Inf, -Inf, zero), float32's exponent range (overflow to   *)
(* Inf at 2^128, underflow to zero below 2^-149) and a significand of      *)
(* SigBits bits, rounded to nearest-even (float32 has 24 bits; SigBits is  *)
(* a bound of the model).  Signed zeros and the reduced precision of       *)
(* subnormals are not modelled.  exp and log are computed on that format   *)
(* by integer algorithms good to about three decimal digits.  Reductions   *)
(* (reduce_sum, matmul) add left to right.                                 *)
(***************************************************************************)
EXTENDS Integers, Sequences, FiniteSets, TLC

\* ------------------------------------------------------------- bounds
SigBits == 12
MaxK == 2
MaxIter == 2

\* float32: largest finite value < 2^MaxExp, smallest positive value 2^MinExp
MaxExp == 128
MinExp == -149
\* apply_gpu_hmm hands fit and predict signal.reshape(-1, 1): one feature
NFeatures == 1

\* ------------------------------------------------------------- float32
NaN == [k |-> "nan", s |-> 1, m |-> 0, e |-> 0]
Inf(sg) == [k |-> "inf", s |-> sg, m |-> 0, e |-> 0]
Zero == [k |-> "fin", s |-> 1, m |-> 0, e |-> 0]

IsNaN(a) == a.k = "nan"
IsInf(a) == a.k = "inf"
IsFinite(a) == a.k = "fin"
IsZero(a) == a.k = "fin" /\ a.m = 0

Pow2(n) == 2 ^ n
Abs(n) == IF n < 0 THEN -n ELSE n

RECURSIVE BitLen(_)
BitLen(n) == IF n = 0 THEN 0 ELSE 1 + BitLen(n \div 2)

\* the finite value m * 2^e with a normalised significand, or its overflow to
\* Inf / underflow to zero
Pack(sg, m, e) ==
  IF e + SigBits > MaxExp THEN Inf(sg)
  ELSE IF e + SigBits - 1 < MinExp THEN Zero
  ELSE [k |-> "fin", s |-> sg, m |-> m, e |-> e]

\* sg * m * 2^e (m >= 0 an integer) rounded to SigBits bits, nearest-even
Round(sg, m, e) ==
  IF m = 0 THEN Zero
  ELSE LET sh == BitLen(m) - SigBits
       IN IF sh <= 0 THEN Pack(sg, m * Pow2(-sh), e + sh)
          ELSE LET q == m \div Pow2(sh)
                   r == m % Pow2(sh)
                   half == Pow2(sh - 1)
                   q2 == IF r > half \/ (r = half /\ q % 2 = 1) THEN q + 1 ELSE q
               IN IF q2 = Pow2(SigBits)
                  THEN Pack(sg, Pow2(SigBits - 1), e + sh + 1)
                  ELSE Pack(sg, q2, e + sh)

\* tf.convert_to_tensor(X, dtype=tf.float32) of an integer-valued sample
FromInt(n) == Round(IF n < 0 THEN -1 ELSE 1, Abs(n), 0)

One == FromInt(1)

Neg(a) == IF a.k = "nan" \/ IsZero(a) THEN a ELSE [a EXCEPT !.s = -a.s]

Add(a, b) ==
  IF IsNaN(a) \/ IsNaN(b) THEN NaN
  ELSE IF IsInf(a) THEN (IF IsInf(b) /\ b.s # a.s THEN NaN ELSE a)
  ELSE IF IsInf(b) THEN b
  ELSE IF a.m = 0 THEN b
  ELSE IF b.m = 0 THEN a
  ELSE LET hi == IF a.e >= b.e THEN a ELSE b
           lo == IF a.e >= b.e THEN b ELSE a
           d == hi.e - lo.e
       IN IF d > SigBits + 1 THEN hi
          ELSE LET sum == hi.s * hi.m * Pow2(d) + lo.s * lo.m
               IN Round(IF sum < 0 THEN -1 ELSE 1, Abs(sum), lo.e)

Sub(a, b) == Add(a, Neg(b))

Mul(a, b) ==
  IF IsNaN(a) \/ IsNaN(b) THEN NaN
  ELSE IF IsInf(a) \/ IsInf(b)
       THEN (IF IsZero(a) \/ IsZero(b) THEN NaN ELSE Inf(a.s * b.s))
  ELSE IF a.m = 0 \/ b.m = 0 THEN Zero
  ELSE Round(a.s * b.s, a.m * b.m, a.e + b.e)

Div(a, b) ==
  IF IsNaN(a) \/ IsNaN(b) THEN NaN
  ELSE IF IsInf(a) THEN (IF IsInf(b) THEN NaN ELSE Inf(a.s * b.s))
  ELSE IF IsInf(b) THEN Zero
  ELSE IF b.m = 0 THEN (IF a.m = 0 THEN NaN ELSE Inf(a.s))
  ELSE IF a.m = 0 THEN Zero
  ELSE LET num == a.m * Pow2(SigBits + 2)
           q == num \div b.m
           sticky == IF num % b.m # 0 /\ q % 2 = 0 THEN q + 1 ELSE q
       IN Round(a.s * b.s, sticky, a.e - b.e - SigBits - 2)

FromRatio(p, q) == Div(FromInt(p), FromInt(q))

SignOf(a) == IF IsZero(a) THEN 0 ELSE a.s

\* a < b; false when either is NaN
Less(a, b) ==
  /\ ~IsNaN(a)
  /\ ~IsNaN(b)
  /\ IF IsInf(a) THEN a.s = -1 /\ ~(IsInf(b) /\ b.s = -1)
     ELSE IF IsInf(b) THEN b.s = 1
     ELSE IF SignOf(a) # SignOf(b) THEN SignOf(a) < SignOf(b)
     ELSE IF SignOf(a) = 1 THEN a.e < b.e \/ (a.e = b.e /\ a.m < b.m)
     ELSE IF SignOf(a) = -1 THEN b.e < a.e \/ (a.e = b.e /\ b.m < a.m)
     ELSE FALSE

\* 2^(f / 4096) * 4096 for f in 0..4095, by a cubic
Exp2Frac(f) ==
  LET p3 == 926 + (f * 319) \div 4096
      p2 == 2850 + (f * p3) \div 4096
  IN 4096 + (f * p2) \div 4096

\* tf.exp
ExpF(x) ==
  IF IsNaN(x) THEN NaN
  ELSE IF IsInf(x) THEN (IF x.s = 1 THEN x ELSE Zero)
  ELSE IF x.m = 0 THEN One
  ELSE IF x.e + SigBits > 7 THEN (IF x.s = 1 THEN Inf(1) ELSE Zero)
  ELSE LET sh == x.e + 12
           xi == x.s * (IF sh >= 0 THEN x.m * Pow2(sh) ELSE x.m \div Pow2(-sh))
           t == xi + (xi * 3627) \div 8192
       IN Round(1, Exp2Frac(t % 4096), (t \div 4096) - 12)

\* the first j bits of log2(u / 2^14) for u / 2^14 in [1, 2), by squaring
RECURSIVE Log2Bits(_, _)
Log2Bits(u, j) ==
  IF j = 0 THEN 0
  ELSE LET sq == (u * u) \div 16384
       IN IF sq >= 32768 THEN Pow2(j - 1) + Log2Bits(sq \div 2, j - 1)
          ELSE Log2Bits(sq, j - 1)

\* tf.math.log
LogF(x) ==
  IF IsNaN(x) THEN NaN
  ELSE IF IsInf(x) THEN (IF x.s = 1 THEN x ELSE NaN)
  ELSE IF x.m = 0 THEN Inf(-1)
  ELSE IF x.s = -1 THEN NaN
  ELSE LET u == x.m * Pow2(15 - SigBits)
           l2 == (x.e + SigBits - 1) * 4096 + Log2Bits(u, 12)
       IN Round(IF l2 < 0 THEN -1 ELSE 1, Abs(l2) * 2839, -24)


\* ------------------------------------------------------------- tensors
Half == FromRatio(1, 2)
\* 2 * np.pi, as a float32
TwoPi == FromRatio(710, 113)
\* NumTraits<float>::lowest(), the start value of Eigen's argmax reduction
Lowest == [k |-> "fin", s |-> -1, m |-> Pow2(SigBits) - 1, e |-> MaxExp - SigBits]

Square(a) == Mul(a, a)

\* tf.reduce_sum of a vector
RECURSIVE ReduceSum(_)
ReduceSum(v) ==
  IF Len(v) = 0 THEN Zero
  ELSE Add(ReduceSum(SubSeq(v, 1, Len(v) - 1)), v[Len(v)])

\* tf.reduce_max of a non-empty vector; NaN if an entry is NaN
RECURSIVE ReduceMax(_)
ReduceMax(v) ==
  IF Len(v) = 1 THEN v[1]
  ELSE LET r == ReduceMax(SubSeq(v, 1, Len(v) - 1))
           x == v[Len(v)]
       IN IF IsNaN(r) \/ IsNaN(x) THEN NaN ELSE IF Less(r, x) THEN x ELSE r

\* tf.reduce_logsumexp of a vector: the maximum is taken out when it is finite
ReduceLogSumExp(v) ==
  LET raw_max == ReduceMax(v)
      my_max == IF IsFinite(raw_max) THEN raw_max ELSE Zero
  IN Add(LogF(ReduceSum([c \in 1..Len(v) |-> ExpF(Sub(v[c], my_max))])), my_max)

\* tf.nn.softmax of a vector
Softmax(v) ==
  LET mx == ReduceMax(v)
      ex == [c \in 1..Len(v) |-> ExpF(Sub(v[c], mx))]
      tot == ReduceSum(ex)
  IN [c \in 1..Len(v) |-> Div(ex[c], tot)]

\* tf.argmax of a vector, 0-based: Eigen's reduction keeps the first entry that
\* is greater than all before it and than lowest(); NaN is never greater
RECURSIVE ArgMaxFrom(_, _, _, _)
ArgMaxFrom(v, j, best, val) ==
  IF j > Len(v) THEN best
  ELSE IF Less(val, v[j]) THEN ArgMaxFrom(v, j + 1, j - 1, v[j])
  ELSE ArgMaxFrom(v, j + 1, best, val)

\* (mutant) the index counted from 1
ArgMaxOneBased(v) == ArgMaxFrom(v, 1, 0, Lowest) + 1

ArgMax(v) == ArgMaxFrom(v, 1, 0, Lowest)

\* tf.convert_to_tensor(X, dtype=tf.float32)
ToTensor(X) == [i \in 1..Len(X) |-> [f \in 1..NFeatures |-> FromInt(X[i][f])]]

\* _compute_log_likelihood: [component][sample]
ComputeLogLikelihood(X, means, covars) ==
  [c \in 1..Len(means) |-> [i \in 1..Len(X) |->
     LET quad == ReduceSum([f \in 1..NFeatures |->
                   Div(Square(Sub(X[i][f], means[c][f])), covars[c][f])])
         norm == ReduceSum([f \in 1..NFeatures |->
                   LogF(Mul(TwoPi, covars[c][f]))])
     IN Sub(Mul(Neg(Half), quad), Mul(Half, norm))]]

\* E-step: the responsibilities [component][sample]
Responsibilities(X, means, covars, startprob) ==
  LET ll == ComputeLogLikelihood(X, means, covars)
      lr == [c \in 1..Len(means) |-> [i \in 1..Len(X) |->
               Add(ll[c][i], LogF(startprob[c]))]]
      lse == [i \in 1..Len(X) |-> ReduceLogSumExp([c \in 1..Len(means) |-> lr[c][i]])]
  IN [c \in 1..Len(means) |-> [i \in 1..Len(X) |-> ExpF(Sub(lr[c][i], lse[i]))]]

\* tf.reduce_sum(resp, axis=1)
Denominators(r) == [c \in 1..Len(r) |-> ReduceSum(r[c])]

\* tf.matmul(resp, X_tf) / denom
NewMeans(r, X, den) ==
  [c \in 1..Len(r) |-> [f \in 1..NFeatures |->
     Div(ReduceSum([i \in 1..Len(X) |-> Mul(r[c][i], X[i][f])]), den[c])]]

\* tf.reduce_sum(resp * (X_tf - means) ** 2, axis=1) / denom
NewCovars(r, X, means, den) ==
  [c \in 1..Len(r) |-> [f \in 1..NFeatures |->
     Div(ReduceSum([i \in 1..Len(X) |->
           Mul(r[c][i], Square(Sub(X[i][f], means[c][f])))]), den[c])]]

\* (mutant) a decode that weighs every component by its start probability
PredictLabelsWithPrior(means, covars, startprob, transmat, X) ==
  LET log_likelihood == ComputeLogLikelihood(X, means, covars)
  IN [i \in 1..Len(X) |-> ArgMax([c \in 1..Len(means) |->
        Add(log_likelihood[c][i], LogF(startprob[c]))])]

\* predict on the model self = (means, covars, startprob, transmat)
PredictLabels(means, covars, startprob, transmat, X) ==
  LET log_likelihood == ComputeLogLikelihood(X, means, covars)
  IN [i \in 1..Len(X) |-> ArgMax([c \in 1..Len(means) |-> log_likelihood[c][i]])]

\* ------------------------------------------------------------- inputs
\* the arrays handed to fit and predict, [sample][feature]: one and several
\* samples, constant and not, fewer samples than components
ObservationSets ==
  { << <<0>> >>, << <<0>>, <<0>> >>, << <<0>>, <<10>> >>,
    << <<100>>, <<100>> >>, << <<10>>, <<0>>, <<0>> >> }

\* values tf.random.normal and tf.random.uniform may return
NormalDraws == {FromInt(-1), FromInt(1)}
UniformDraws == {Zero, Half}
\* what the four random tensors of one fit may be: every combination of
\* NormalDraws for the means; a flat and an uneven startprob and transmat
RandomDraws(k) ==
  { [means |-> m,
     start |-> [c \in 1..k |-> IF c = 1 THEN u ELSE Zero],
     trans |-> [r \in 1..k |-> [c \in 1..k |-> IF r = c THEN u ELSE Zero]]] :
    m \in [1..k -> [1..NFeatures -> NormalDraws]], u \in UniformDraws }

\* ------------------------------------------------------------- state
\* Python's None, for a tensor that is not there
None == <<>>
\* what a call returned
NoReturn == [kind |-> "none", labels |-> <<>>]
ReturnSelf == [kind |-> "self", labels |-> <<>>]
ReturnLabels(l) == [kind |-> "labels", labels |-> l]
RaiseTypeError == [kind |-> "TypeError", labels |-> <<>>]

VARIABLES
  n_components, n_iter,                    \* set by __init__
  means_, covars_, transmat_, startprob_,  \* None until the first fit
  pc,           \* "idle", or fit's position: "init", "loop", "mstep_means",
                \* "mstep_covars"
  X_tf, it, resp, denom,                   \* fit's locals; it: iterations done
  px, ret,      \* predict's X_tf; what the last call returned
  mean_updates, covar_updates,  \* assignments to means_, covars_ in the loop
  init_start, init_trans,       \* startprob_, transmat_ as initialised
  means_prev,                   \* means_ when the iteration's E-step ran
  inits, refit, repeat          \* initialisations in this fit; fit of a fitted
                                \* model; predict repeated on the same input

params == <<means_, covars_, transmat_, startprob_>>
locals == <<X_tf, it, resp, denom>>
ghosts == <<mean_updates, covar_updates, init_start, init_trans, means_prev,
            inits, refit>>
vars == <<n_components, n_iter, params, pc, locals, px, ret, ghosts, repeat>>

Init ==
  /\ n_components \in 1..MaxK
  /\ n_iter \in 0..MaxIter
  /\ means_ = None /\ covars_ = None
  /\ transmat_ = None /\ startprob_ = None
  /\ pc = "idle"
  /\ X_tf = None /\ it = 0 /\ resp = None /\ denom = None
  /\ px = None /\ ret = NoReturn
  /\ mean_updates = 0 /\ covar_updates = 0
  /\ init_start = None /\ init_trans = None /\ means_prev = None
  /\ inits = 0 /\ refit = FALSE /\ repeat = FALSE

\* fit: X_tf = tf.convert_to_tensor(X, dtype=tf.float32)
FitCall ==
  /\ pc = "idle"
  /\ \E X \in ObservationSets : X_tf' = ToTensor(X)
  /\ it' = 0 /\ resp' = None /\ denom' = None
  /\ px' = None /\ ret' = NoReturn
  /\ mean_updates' = 0 /\ covar_updates' = 0 /\ means_prev' = None
  /\ inits' = 0 /\ refit' = (means_ # None) /\ repeat' = FALSE
  /\ pc' = "init"
  /\ UNCHANGED <<n_components, n_iter, params, init_start, init_trans>>

\* (mutant) a warm start: a fitted model keeps its means and variances
InitializeParametersWarmStart(d) ==
  /\ means_' = IF means_ = None THEN d.means ELSE means_
  /\ covars_' = IF covars_ = None
                THEN [c \in 1..n_components |-> [f \in 1..NFeatures |-> One]]
                ELSE covars_
  /\ transmat_' = [r \in 1..n_components |-> Softmax(d.trans[r])]
  /\ startprob_' = Softmax(d.start)

\* the four parameters of a fresh fit: random means, unit variances, and the
\* softmax of a random transmat (by row) and startprob
InitializeParameters(d) ==
  /\ means_' = d.means
  /\ covars_' = [c \in 1..n_components |-> [f \in 1..NFeatures |-> One]]
  /\ transmat_' = [r \in 1..n_components |-> Softmax(d.trans[r])]
  /\ startprob_' = Softmax(d.start)

FitInit ==
  /\ pc = "init"
  /\ \E d \in RandomDraws(n_components) : InitializeParameters(d)
  /\ init_start' = startprob_' /\ init_trans' = transmat_'
  /\ inits' = inits + 1
  /\ pc' = "loop"
  /\ UNCHANGED <<n_components, n_iter, locals, px, ret, mean_updates,
                 covar_updates, means_prev, refit, repeat>>

\* (mutant) a convergence check: stop once a variance has collapsed
LoopContinuesUnlessCollapsed ==
  /\ it < n_iter
  /\ \A c \in 1..n_components : \A f \in 1..NFeatures : ~IsZero(covars_[c][f])

\* for i in range(self.n_iter)
LoopContinues == it < n_iter

EStep ==
  /\ pc = "loop" /\ LoopContinues
  /\ resp' = Responsibilities(X_tf, means_, covars_, startprob_)
  /\ means_prev' = means_
  /\ pc' = "mstep_means"
  /\ UNCHANGED <<n_components, n_iter, params, X_tf, it, denom, px, ret,
                 mean_updates, covar_updates, init_start, init_trans, inits,
                 refit, repeat>>

\* (mutant) the M-step of a full EM, which re-estimates the start weights too
MStepMeansAndStart ==
  /\ pc = "mstep_means"
  /\ denom' = Denominators(resp)
  /\ means_' = NewMeans(resp, X_tf, denom')
  /\ startprob_' = [c \in 1..n_components |-> Div(denom'[c], FromInt(Len(X_tf)))]
  /\ mean_updates' = mean_updates + 1
  /\ pc' = "mstep_covars"
  /\ UNCHANGED <<n_components, n_iter, covars_, transmat_, X_tf, it,
                 resp, px, ret, covar_updates, init_start, init_trans,
                 means_prev, inits, refit, repeat>>

MStepMeans ==
  /\ pc = "mstep_means"
  /\ denom' = Denominators(resp)
  /\ means_' = NewMeans(resp, X_tf, denom')
  /\ mean_updates' = mean_updates + 1
  /\ pc' = "mstep_covars"
  /\ UNCHANGED <<n_components, n_iter, covars_, transmat_, startprob_, X_tf, it,
                 resp, px, ret, covar_updates, init_start, init_trans,
                 means_prev, inits, refit, repeat>>

\* (mutant) the variances centred on the means of the previous iteration
MStepCovarsStaleMeans ==
  /\ pc = "mstep_covars"
  /\ covars_' = NewCovars(resp, X_tf, means_prev, denom)
  /\ covar_updates' = covar_updates + 1
  /\ it' = it + 1
  /\ pc' = "loop"
  /\ UNCHANGED <<n_components, n_iter, means_, transmat_, startprob_, X_tf,
                 resp, denom, px, ret, mean_updates, init_start, init_trans,
                 means_prev, inits, refit, repeat>>

MStepCovars ==
  /\ pc = "mstep_covars"
  /\ covars_' = NewCovars(resp, X_tf, means_, denom)
  /\ covar_updates' = covar_updates + 1
  /\ it' = it + 1
  /\ pc' = "loop"
  /\ UNCHANGED <<n_components, n_iter, means_, transmat_, startprob_, X_tf,
                 resp, denom, px, ret, mean_updates, init_start, init_trans,
                 means_prev, inits, refit, repeat>>

\* return self
FitReturn ==
  /\ pc = "loop" /\ ~LoopContinues
  /\ ret' = ReturnSelf
  /\ pc' = "idle"
  /\ UNCHANGED <<n_components, n_iter, params, locals, px, ghosts, repeat>>

\* (mutant) a predict that clamps the stored variances to an epsilon first
PredictClamping ==
  /\ pc = "idle" /\ means_ # None
  /\ covars_' = [c \in 1..n_components |-> [f \in 1..NFeatures |->
                   IF IsZero(covars_[c][f]) THEN FromRatio(1, 1000000)
                   ELSE covars_[c][f]]]
  /\ \E X \in ObservationSets :
       /\ px' = ToTensor(X)
       /\ ret' = ReturnLabels(PredictLabels(means_, covars_', startprob_, transmat_, px'))
       /\ repeat' = (ret.kind = "labels" /\ px = px')
  /\ UNCHANGED <<n_components, n_iter, means_, transmat_, startprob_, pc,
                 locals, ghosts>>

Predict ==
  /\ pc = "idle" /\ means_ # None
  /\ \E X \in ObservationSets :
       /\ px' = ToTensor(X)
       /\ ret' = ReturnLabels(PredictLabels(means_, covars_, startprob_, transmat_, px'))
       /\ repeat' = (ret.kind = "labels" /\ px = px')
  /\ UNCHANGED <<n_components, n_iter, params, pc, locals, ghosts>>

\* predict before any fit: self.means_ is None and cannot be indexed
PredictUnfitted ==
  /\ pc = "idle" /\ means_ = None
  /\ \E X \in ObservationSets : px' = ToTensor(X)
  /\ ret' = RaiseTypeError
  /\ UNCHANGED <<n_components, n_iter, params, pc, locals, ghosts, repeat>>

FitStep == FitInit \/ EStep \/ MStepMeans \/ MStepCovars \/ FitReturn

Next == FitCall \/ FitStep \/ Predict \/ PredictUnfitted

Spec == Init /\ [][Next]_vars

\* ------------------------------------------------------------- claims
InFit == pc \in {"init", "loop", "mstep_means", "mstep_covars"}
Components == 1..n_components
Features == 1..NFeatures

\* the steps fit has left to take, at most
StepsLeft ==
  CASE pc = "idle" -> 0
    [] pc = "init" -> 3 * n_iter + 2
    [] pc = "loop" -> 3 * (n_iter - it) + 1
    [] pc = "mstep_means" -> 3 * (n_iter - it)
    [] pc = "mstep_covars" -> 3 * (n_iter - it) - 1

\* C1: a call to fit terminates, and by then it has run exactly n_iter
\* iterations: inside fit a step is always possible and every step leaves
\* fewer steps to take; fit assigns the means and the variances n_iter times
\* each by the time it returns, and never more at any point of the call.
C1_FixedIterations ==
  /\ [](mean_updates <= n_iter /\ covar_updates <= n_iter)
  /\ []((pc = "idle" /\ means_ # None) =>
          (it = n_iter /\ mean_updates = n_iter /\ covar_updates = n_iter))
  /\ [](InFit => StepsLeft > 0)
  /\ [][InFit => StepsLeft' < StepsLeft]_vars

C1_Witness ==
  /\ pc = "idle" /\ ret.kind = "self"
  /\ n_iter = MaxIter /\ mean_updates = MaxIter /\ covar_updates = MaxIter

\* C2: startprob_ and transmat_ are what the initialisation of the fit made
\* them, in every state of the EM loop and after fit returned.
C2_StartTransFrozen == startprob_ = init_start /\ transmat_ = init_trans

C2_Witness ==
  /\ pc = "idle" /\ ret.kind = "self" /\ it = MaxIter /\ mean_updates > 0
  /\ startprob_ # None /\ startprob_ = init_start /\ transmat_ = init_trans

\* C3: predict on n samples returns n labels, each an integer in
\* 0..n_components-1.
C3_LabelRange ==
  ret.kind = "labels" =>
    /\ Len(ret.labels) = Len(px)
    /\ \A i \in 1..Len(px) : ret.labels[i] \in 0..(n_components - 1)

C3_Witness ==
  /\ ret.kind = "labels" /\ Len(px) = 3 /\ n_components = MaxK
  /\ \E i \in 1..Len(px) : ret.labels[i] = n_components - 1

\* the start weights and transition matrices a model might hold instead
StartAlternatives ==
  {Softmax([c \in Components |-> IF c = j THEN Half ELSE Zero]) : j \in Components}
TransAlternatives ==
  {[r \in Components |-> Softmax([c \in Components |-> IF r = c THEN u ELSE Zero])] :
     u \in UniformDraws}

\* l (0-based) is the first index at which v is largest
IsFirstArgMax(v, l) ==
  \A c \in 1..Len(v) : ~Less(v[l + 1], v[c]) /\ (c < l + 1 => v[c] # v[l + 1])

C5_PredictPure ==
  [][(pc = "idle" /\ pc' = "idle" /\ ret'.kind = "labels") =>
       /\ UNCHANGED params
       /\ (ret.kind = "labels" /\ px' = px) => ret'.labels = ret.labels]_vars

C5_Witness ==
  /\ repeat /\ ret.kind = "labels" /\ Len(px) = 3
  /\ \E c \in Components : \E f \in Features : IsZero(covars_[c][f])

\* C6: a fit with more components than samples runs no E-step and updates
\* neither means nor variances.
C6_TooFewSamplesRejected ==
  (X_tf # None /\ n_components > Len(X_tf)) =>
     (resp = None /\ mean_updates = 0 /\ covar_updates = 0)

\* C7: on a fit with at least as many samples as components, the M-step divides
\* by no denominator that is zero.
C7_DenominatorGuarded ==
  (denom # None /\ Len(X_tf) >= n_components) =>
     \A c \in Components : ~IsZero(denom[c])

\* C8: every variance the model holds is strictly positive.
C8_VariancesPositive ==
  covars_ # None =>
     \A c \in Components : \A f \in Features : Less(Zero, covars_[c][f])

\* C9: in an iteration the responsibilities come from the parameters the
\* iteration started with, the means are assigned before the variances, and
\* the variances are centred on the means assigned in the same iteration.
C9_IterationOrder ==
  /\ pc = "mstep_means" =>
       /\ means_ = means_prev
       /\ resp = Responsibilities(X_tf, means_, covars_, startprob_)
       /\ mean_updates = covar_updates
  /\ pc = "mstep_covars" =>
       /\ denom = Denominators(resp)
       /\ means_ = NewMeans(resp, X_tf, denom)
       /\ mean_updates = covar_updates + 1
  /\ (pc \in {"loop", "idle"} /\ it > 0) =>
       /\ means_ = NewMeans(resp, X_tf, denom)
       /\ covars_ = NewCovars(resp, X_tf, means_, denom)
       /\ mean_updates = covar_updates

C9_Witness ==
  /\ pc = "loop" /\ it = 1 /\ means_ # means_prev
  /\ covars_ # NewCovars(resp, X_tf, means_prev, denom)
  /\ \A c \in Components : \A f \in Features :
       IsFinite(means_[c][f]) /\ Less(Zero, covars_[c][f])

\* C10: fit initialises the four parameters once, before the first
\* iteration: when the loop is entered they are fresh random draws, unit
\* variances and softmaxes, whatever a previous fit left, and no later step of
\* the call initialises them again.
C10_FreshInitEachFit ==
  /\ pc = "init" => inits = 0
  /\ pc \in {"loop", "mstep_means", "mstep_covars"} => inits = 1
  /\ (pc = "loop" /\ it = 0) =>
       \E d \in RandomDraws(n_components) :
          /\ means_ = d.means
          /\ covars_ = [c \in Components |-> [f \in Features |-> One]]
          /\ startprob_ = Softmax(d.start)
          /\ transmat_ = [r \in Components |-> Softmax(d.trans[r])]

C10_Witness ==
  /\ refit /\ pc = "loop" /\ it = 0 /\ inits = 1
  /\ covars_ = [c \in Components |-> [f \in Features |-> One]]

====
